---- MODULE Spec2Model ----
(***************************************************************************)
(* Batch generation pipeline of the Adobe Stock CSV generator:             *)
(* the Result Store (ResultsContext), the Metadata Client                  *)
(* (generateMetadata), the model-resolution cache (getOrResolveModel) and  *)
(* the credential-rotating Batch Orchestrator (Page.generateForRow,        *)
(* Page.generateBatch) together with the user operations that reach them.  *)
(*                                                                         *)
(* One action is one browser task: a click handler, a resolved file read,  *)
(* a settled remote call or a fired timer, followed by all the synchronous *)
(* code and promise continuations that run before the next task.           *)
(*                                                                         *)
(* Spec is the pipeline with the key dialog, every localStorage write of   *)
(* the Result Store succeeding.  StoreSpec is the Result Store on its own  *)
(* with failing writes, KeywordsSpec and CsvSpec apply the keyword and the *)
(* CSV utilities to bounded inputs, ResolverSpec is getOrResolveModel with *)
(* the two listing variants answering in every combination, and PairSpec   *)
(* runs one batch through the rotating and the single-credential Page side *)
(* by side.                                                                *)
(***************************************************************************)
EXTENDS Integers, Sequences, FiniteSets, TLC

\* ---------------------------------------------------------------- bounds
MaxKeys == 2
MaxFiles == 2
MaxOrphans == 1
MaxUserOps == 4
MaxDrop == 2
MaxKeywords == 3
MaxKeywordLen == 2
MaxCsvRows == 2
MaxFieldLen == 2
MaxResolves == 2
MaxPairRows == 2

\* ------------------------------------------------------ program constants
MAX_FILES_PER_BATCH == 20

\* apiKeyStore.validate: shortest trimmed credential that is accepted.
MIN_KEY_LENGTH == 20

\* generateBatch: the milliseconds it sleeps after a row that succeeded and
\* after a row that failed, and the delay of the progress reset.
SUCCESS_DELAY_MS == 2000

FAILURE_DELAY_MS == 2000

RESET_DELAY_MS == 2000

Filenames == {"a.jpg", "b.jpg"}

\* ------------------------------------------------------------ error values
\* A thrown value: isError is `instanceof Error`, code is the `code` property
\* ("" when the value has none), message the `message` property, status the
\* `status` property (0 when the value has none).
ErrorOf(msg) ==
    [isError |-> TRUE, name |-> "Error", code |-> "", message |-> msg,
     status |-> 0]

AbortErrorOf(msg) ==
    [isError |-> TRUE, name |-> "AbortError", code |-> "", message |-> msg,
     status |-> 0]

PlainError(msg, c, st) ==
    [isError |-> FALSE, name |-> "", code |-> c, message |-> msg, status |-> st]

NoError == [isError |-> FALSE, name |-> "", code |-> "", message |-> "",
            status |-> 0]

\* error.message.includes('429'), over the messages of the model: the status
\* code appears in the message of a listing failure without server message.
Includes429(msg) == msg \in {"Failed to list models: 429"}

\* ------------------------------------------------------- remote responses
\* What the model-listing endpoint of one API variant answers for one
\* credential: the HTTP status, whether the body carries error.message, and
\* whether a listed model supports generateContent.
VariantResponses ==
    { [status |-> 200, hasMessage |-> FALSE, usable |-> TRUE],
      [status |-> 200, hasMessage |-> FALSE, usable |-> FALSE],
      [status |-> 429, hasMessage |-> FALSE, usable |-> FALSE],
      [status |-> 429, hasMessage |-> TRUE, usable |-> FALSE],
      [status |-> 403, hasMessage |-> TRUE, usable |-> FALSE] }

VariantOk == [status |-> 200, hasMessage |-> FALSE, usable |-> TRUE]

\* The answers of the two variants to one resolveModel call.
AllListings == [v1beta : VariantResponses, v1 : VariantResponses]

\* The answers the pipeline is run with: the two variants answer alike, or
\* the v1beta listing is refused and the v1 listing succeeds.
ListingResponses ==
    {l \in AllListings : l.v1beta = l.v1 \/ (l.v1beta.status = 403 /\ l.v1 = VariantOk)}

\* What the generateContent endpoint does with one request.
\*   transport: "ok" | "abort" (the 30 s timer aborted the fetch) |
\*              "network" (fetch rejected)
\*   status:    HTTP status when transport = "ok"
\*   body:      "valid"       parsed JSON with title, description, string keywords
\*              "badKeywords" keywords is an array holding a non-string
\*              "malformed"   unparsable or missing title/description/keywords
GenerateResponses ==
    { [transport |-> "ok", status |-> 200, body |-> "valid"],
      [transport |-> "ok", status |-> 200, body |-> "badKeywords"],
      [transport |-> "ok", status |-> 200, body |-> "malformed"],
      [transport |-> "ok", status |-> 429, body |-> ""],
      [transport |-> "ok", status |-> 500, body |-> ""],
      [transport |-> "abort", status |-> 0, body |-> ""],
      [transport |-> "network", status |-> 0, body |-> ""] }

ListingOk == [v1beta |-> VariantOk, v1 |-> VariantOk]

GenerateOk == [transport |-> "ok", status |-> 200, body |-> "valid"]

\* discoverModels(apiKey, apiVersion) for the answer r of that variant;
\* models is whether the list holds a model that supports generateContent.
discoverModels(r) ==
    IF r.status # 200
    THEN [ok |-> FALSE, models |-> FALSE,
          error |-> ErrorOf(IF r.hasMessage THEN "server message"
                            ELSE IF r.status = 429
                                 THEN "Failed to list models: 429"
                                 ELSE "Failed to list models: other")]
    ELSE [ok |-> TRUE, models |-> r.usable, error |-> NoError]

\* A findBestModel without the filter on generateContent.
findBestModelUnfiltered(models) == [isNull |-> FALSE, apiVersion |-> "v1beta"]

\* findBestModel(models): null, or the model with the API version.
findBestModel(models) ==
    IF ~models THEN [isNull |-> TRUE, apiVersion |-> ""]
    ELSE [isNull |-> FALSE, apiVersion |-> "v1beta"]

\* The versions the loop of resolveModel goes through.
API_VERSIONS == <<"v1beta", "v1">>

RECURSIVE resolveModelFrom(_, _, _)
\* resolveModel, iteration k of its loop; queried are the variants whose
\* listing was requested so far.
resolveModelFrom(listing, k, queried) ==
    IF k > Len(API_VERSIONS)
    THEN [ok |-> FALSE, apiVersion |-> "", modelFrom |-> "", queried |-> queried,
          error |-> ErrorOf("No suitable model found for this API key")]
    ELSE LET apiVersion == API_VERSIONS[k]
             d == discoverModels(listing[apiVersion])
             q == Append(queried, apiVersion)
             bestModel == findBestModel(d.models)
         IN IF ~d.ok
            THEN IF apiVersion = "v1beta"
                 THEN resolveModelFrom(listing, k + 1, q)
                 ELSE [ok |-> FALSE, apiVersion |-> "", modelFrom |-> "",
                       queried |-> q, error |-> d.error]
            ELSE IF ~bestModel.isNull
                 THEN \* modelName is the name of a model of the listing
                      \* of apiVersion
                      [ok |-> TRUE, apiVersion |-> bestModel.apiVersion,
                       modelFrom |-> apiVersion, queried |-> q, error |-> NoError]
                 ELSE resolveModelFrom(listing, k + 1, q)

\* resolveModel(apiKey) for the answers of the two variants.
resolveModel(listing) == resolveModelFrom(listing, 1, <<>>)

\* The value thrown inside the try block of generateMetadata for a response.
ThrownInTry(resp) ==
    IF resp.transport = "abort" THEN AbortErrorOf("The operation was aborted")
    ELSE IF resp.transport = "network" THEN ErrorOf("Failed to fetch")
    ELSE IF resp.status = 429 THEN PlainError("Rate limit exceeded", "QUOTA_EXCEEDED", 429)
    ELSE IF resp.status # 200
         THEN PlainError("API request failed", "", resp.status)
    ELSE ErrorOf("Invalid response structure")

\* The catch block of generateMetadata: what the caller receives.
CatchRethrow(error) ==
    IF error.isError
    THEN IF error.name = "AbortError"
         THEN ErrorOf("Request timeout after 30000ms")
         ELSE error
    ELSE ErrorOf("Unknown error occurred while calling Gemini API")

\* generateMetadata(apiKey, base64): resolved is the outcome of
\* getOrResolveModel (thrown before the try block), resp the outcome of the
\* generateContent fetch.
generateMetadata(resolved, resp) ==
    IF ~resolved.ok THEN [ok |-> FALSE, error |-> resolved.error, body |-> ""]
    ELSE IF resp.transport = "ok" /\ resp.status = 200
            /\ resp.body \in {"valid", "badKeywords"}
         THEN [ok |-> TRUE, error |-> NoError, body |-> resp.body]
         ELSE [ok |-> FALSE, error |-> CatchRethrow(ThrownInTry(resp)), body |-> ""]

\* processKeywords(response.keywords): throws a TypeError when an element of
\* the array has no trim method.
processKeywords(body) ==
    IF body = "badKeywords"
    THEN [ok |-> FALSE, error |-> ErrorOf("keyword.trim is not a function")]
    ELSE [ok |-> TRUE, error |-> NoError]

\* A quota test that lets every thrown Error pass.
isQuotaErrorAnyError(error) == error.isError

\* The quota test of generateForRow.
isQuotaError(error) ==
    \/ error.code = "QUOTA_EXCEEDED"
    \/ (error.isError /\ Includes429(error.message))

\* ------------------------------------------------------------------ state
VARIABLES
    rows,               \* ResultsProvider: the ordered row list
    apiKeys,            \* getApiKeys().length of the apiKey state of ApiKeyProvider
    modelCache,         \* key index whose prefix is cached in gemini_resolved_model, -1 if none
    isGenerating,       \* state of the mounted Page
    apiKeyModalOpen,    \* state of the mounted Page: the key dialog is open
    progress,           \* state of the mounted Page
    activeKeyIndexRef,  \* activeKeyIndexRef.current of each component instance
    batch,              \* the generateBatch call of each component instance
    timerQ,             \* pending timers (all of 2000 ms) in registration order
    pendingDrops,       \* drops whose createImageRow promises have not resolved
    nextId,             \* number of row ids handed out
    userOps,            \* number of user operations so far
    storedKey,          \* keys in the credential persisted under gemini_api_key, 0 if none
    validation,         \* ApiKeyProvider: the last validation result
    keyTest,            \* ApiKeyProvider: the apiKeyStore.test call in flight
    persisted,          \* localStorage entry csv_generator_results
    keywords,           \* a keyword list going through normalizeKeywords
    csv,                \* an export going through the CSV utilities
    resolver,           \* getOrResolveModel calls and the gemini_resolved_model entry
    pair                \* one batch run by the two variants of Page side by side

vars == <<rows, apiKeys, modelCache, isGenerating, apiKeyModalOpen, progress,
          activeKeyIndexRef, batch, timerQ, pendingDrops, nextId, userOps,
          storedKey, validation, keyTest, persisted, keywords, csv, resolver,
          pair>>

\* The values the pure utilities are applied to.
utilVars == <<keywords, csv, resolver, pair>>

\* The state of ApiKeyProvider and apiKeyStore besides the apiKey itself.
credVars == <<storedKey, validation, keyTest>>

\* The state outside Page and the Result Store, untouched by the pipeline.
libVars == <<credVars, utilVars>>

\* useState<ApiKeyValidation | null>(null)
NoValidation == [isValid |-> FALSE, error |-> "null"]

\* No apiKeyStore.test call in flight (isTesting is false).
IdleTest == [pc |-> "idle", hit |-> FALSE]

isTesting == keyTest.pc = "call"

\* Component instances of Page that can still run code: the mounted one, and
\* unmounted ones whose generateBatch call has not returned yet.
Page == 0
Instances == 0..MaxOrphans

ZeroProgress == [total |-> 0, completed |-> 0, failed |-> 0, inProgress |-> 0]

NoRowError == [text |-> "", keys |-> 0, cause |-> ""]

IdleBatch ==
    [pc |-> "idle", queue |-> <<>>, n |-> 0, idx |-> 0, i |-> 0, key |-> 0,
     hit |-> FALSE, removed |-> FALSE,
     tried |-> <<>>, answers |-> <<>>, start |-> 0, lastError |-> NoError,
     succ |-> 0, fail |-> 0, attempted |-> <<>>]

\* createImageRow: preview is whether the row holds a non-empty preview (the
\* data URL of the file), metadata whether it holds title, description and
\* keywords.
createImageRow(id, name) ==
    [id |-> id, filename |-> name, file |-> TRUE, preview |-> TRUE,
     status |-> "pending", metadata |-> FALSE, error |-> NoRowError]

\* ------------------------------------------------- sequence helpers
RECURSIVE SelectSeqBy(_, _)
SelectSeqBy(s, keep) ==
    IF s = <<>> THEN <<>>
    ELSE IF Head(s).id \in keep THEN <<Head(s)>> \o SelectSeqBy(Tail(s), keep)
         ELSE SelectSeqBy(Tail(s), keep)

IdsWhere(rs, st) == {rs[k].id : k \in {j \in 1..Len(rs) : rs[j].status \in st}}

Pending(rs) == SelectSeqBy(rs, IdsWhere(rs, {"pending"}))

Failed(rs) == SelectSeqBy(rs, IdsWhere(rs, {"error"}))

\* ------------------------------------------------------------ Result Store
\* updateRow(id, updates): merge updates into the row with that id.
Merge(row, updates) ==
    [f \in DOMAIN row |-> IF f \in DOMAIN updates THEN updates[f] ELSE row[f]]

updateRow(rs, id, updates) ==
    [k \in 1..Len(rs) |-> IF rs[k].id = id THEN Merge(rs[k], updates) ELSE rs[k]]

removeRow(rs, id) == SelectSeqBy(rs, {rs[k].id : k \in 1..Len(rs)} \ {id})

addRows(rs, newRows) == rs \o newRows

\* A serialisation that keeps the preview of every row.
ReloadedWithPreviews(rs) == [k \in 1..Len(rs) |-> [rs[k] EXCEPT !.file = FALSE]]

\* syncToStorage then the lazy initialiser of ResultsProvider: what a page
\* load reads back for a row (the File object is not serialisable, the
\* preview is stored for a success row only).
Reloaded(rs) ==
    [k \in 1..Len(rs) |->
        [rs[k] EXCEPT !.file = FALSE,
                      !.preview = (rs[k].status = "success" /\ rs[k].preview)]]

\* What localStorage.setItem does with the two writes syncToStorage may try:
\* first is the write of the rows with the previews of the success rows
\* ("quota" a QuotaExceededError, "other" any other exception), retry the
\* write of the rows without previews.
WriteOutcomes ==
    {[first |-> f, retry |-> r] : f \in {"ok", "quota", "other"}, r \in {"ok", "fail"}}

WriteOk == [first |-> "ok", retry |-> "ok"]

\* The two serialised forms: the File object is left out of both.
Serializable(rs) == [rows |-> Reloaded(rs), previews |-> TRUE]

Minimal(rs) ==
    [rows |-> [k \in 1..Len(rs) |-> [Reloaded(rs)[k] EXCEPT !.preview = FALSE]],
     previews |-> FALSE]

\* A syncToStorage that lets the failure of the retry out.
syncToStorageRethrows(rowsToStore, stored, w) ==
    IF w.first = "ok"
    THEN [persisted |-> Serializable(rowsToStore), logged |-> FALSE, thrown |-> FALSE]
    ELSE IF w.first = "quota"
         THEN IF w.retry = "ok"
              THEN [persisted |-> Minimal(rowsToStore), logged |-> FALSE,
                    thrown |-> FALSE]
              ELSE [persisted |-> stored, logged |-> FALSE, thrown |-> TRUE]
         ELSE [persisted |-> stored, logged |-> TRUE, thrown |-> FALSE]

\* syncToStorage(rowsToStore): the entry afterwards, whether console.error
\* was called, and whether an exception leaves the function.
syncToStorage(rowsToStore, stored, w) ==
    IF w.first = "ok"
    THEN [persisted |-> Serializable(rowsToStore), logged |-> FALSE, thrown |-> FALSE]
    ELSE IF w.first = "quota"
         THEN IF w.retry = "ok"
              THEN [persisted |-> Minimal(rowsToStore), logged |-> FALSE,
                    thrown |-> FALSE]
              ELSE [persisted |-> stored, logged |-> TRUE, thrown |-> FALSE]
         ELSE [persisted |-> stored, logged |-> TRUE, thrown |-> FALSE]

\* The lazy initialiser of the rows state.
Loaded(stored) == stored.rows


\* ------------------------------------------------------ Batch Orchestrator
\* The orchestrator code is written over a record W of the values one task
\* reads and writes; the actions below assign its fields to the variables.
World ==
    [rows |-> rows, progress |-> progress, isGenerating |-> isGenerating,
     timerQ |-> timerQ, ref |-> activeKeyIndexRef, cache |-> modelCache,
     batch |-> batch, modal |-> apiKeyModalOpen]

\* setProgress(prev => ...) and setIsGenerating of an unmounted component
\* have no effect.
setProgress(W, m, p) == IF m = Page THEN [W EXCEPT !.progress = p] ELSE W

setIsGenerating(W, m, v) == IF m = Page THEN [W EXCEPT !.isGenerating = v] ELSE W

setTimeout(W, kind, m, ms) ==
    [W EXCEPT !.timerQ = Append(@, [kind |-> kind, inst |-> m, ms |-> ms])]

\* The locals of generateForRow (i, keyIndexToTry, lastError) end with the call.
Returned(b) ==
    [b EXCEPT !.i = 0, !.key = 0, !.hit = FALSE, !.lastError = NoError]

\* generateBatch, try branch after `await generateForRow(row)` returned.
RowResolved(W, m) ==
    LET W1 == [W EXCEPT !.batch[m].succ = @ + 1, !.batch[m].pc = "pace",
                        !.batch[m] = Returned(@)]
        W2 == setProgress(W1, m, [W1.progress EXCEPT !.completed = @ + 1,
                                                     !.inProgress = @ - 1])
    IN setTimeout(W2, "pace", m, SUCCESS_DELAY_MS)

\* A rejection that ends the whole batch instead of counting the row.
RowRejectedAbort(W, m) ==
    [W EXCEPT !.batch[m].pc = "done", !.batch[m].fail = @ + 1]

\* generateBatch, catch branch after `await generateForRow(row)` threw.
RowRejected(W, m) ==
    LET W1 == [W EXCEPT !.batch[m].fail = @ + 1, !.batch[m].pc = "pace",
                        !.batch[m] = Returned(@)]
        W2 == setProgress(W1, m, [W1.progress EXCEPT !.failed = @ + 1,
                                                     !.inProgress = @ - 1])
    IN setTimeout(W2, "pace", m, FAILURE_DELAY_MS)

\* generateForRow after the key loop ended without success.
KeysExhausted(W, m) ==
    LET b == W.batch[m]
        row == b.queue[b.idx]
        errorMessage == IF b.lastError.isError THEN b.lastError.message ELSE "Failed"
        W1 == [W EXCEPT !.rows = updateRow(@, row.id,
                   [status |-> "error",
                    error |-> [text |-> "All keys exhausted or failed",
                               keys |-> b.n, cause |-> errorMessage]])]
    IN RowRejected(W1, m)

\* generateForRow, head of the key loop: call generateMetadata with the next
\* candidate key, or leave the loop when every key has been tried.
TryNextKey(W, m) ==
    LET b == W.batch[m]
        keyIndexToTry == (W.ref[m] + b.i) % b.n
    IN IF b.i < b.n
       THEN [W EXCEPT !.batch[m].pc = "call",
                      !.batch[m].key = keyIndexToTry,
                      !.batch[m].hit = (W.cache = keyIndexToTry),
                      !.batch[m].removed = FALSE,
                      !.batch[m].tried = Append(@, keyIndexToTry)]
       ELSE KeysExhausted(W, m)

\* generateForRow, catch block of the key loop.
CatchInLoop(W, m, error) ==
    LET W1 == [W EXCEPT !.batch[m].lastError = error]
    IN IF isQuotaError(error)
       THEN TryNextKey([W1 EXCEPT !.batch[m].i = @ + 1], m)
       ELSE RowRejected(W1, m)

\* What the provider signalled for the credential of one attempt.
Answer(hit, listing, resp) ==
    IF ~hit /\ ~resolveModel(listing).ok
    THEN \* the failure of the v1 listing is the one that is thrown
         IF listing.v1.status = 429 THEN "quota" ELSE "failure"
    ELSE IF resp.transport = "ok" /\ resp.status = 429 THEN "quota"
    ELSE IF resp.transport = "ok" /\ resp.status = 200 /\ resp.body = "valid"
         THEN "success"
         ELSE "failure"

\* generateForRow, try block of the key loop once generateMetadata settled.
AttemptSettled(W, m, listing, resp) ==
    LET b == W.batch[m]
        row == b.queue[b.idx]
        resolved == IF b.hit THEN [ok |-> TRUE, error |-> NoError]
                    ELSE resolveModel(listing)
        W1 == [W EXCEPT !.cache = IF ~b.hit /\ resolved.ok THEN b.key ELSE @,
                        !.batch[m].answers = Append(@, Answer(b.hit, listing, resp))]
        response == generateMetadata(resolved, resp)
        keywordResult == processKeywords(response.body)
    IN IF response.ok /\ keywordResult.ok
       THEN RowResolved(
                [W1 EXCEPT !.rows = updateRow(@, row.id,
                               [status |-> "success", metadata |-> TRUE,
                                error |-> NoRowError]),
                           !.ref[m] = b.key], m)
       ELSE CatchInLoop(W1, m, IF response.ok THEN keywordResult.error
                               ELSE response.error)

\* generateBatch loop body up to the first suspension of generateForRow.
generateForRow(W, m) ==
    LET b == W.batch[m]
        row == b.queue[b.idx]
        W0 == [W EXCEPT !.batch[m].attempted = Append(@, row.id),
                        !.batch[m].tried = <<>>, !.batch[m].answers = <<>>,
                        !.batch[m].i = 0, !.batch[m].lastError = NoError,
                        !.batch[m].start = W.ref[m]]
    IN IF ~row.file
       THEN RowResolved(
                [W0 EXCEPT !.rows = updateRow(@, row.id,
                               [status |-> "error",
                                error |-> [text |-> "File missing", keys |-> 0,
                                           cause |-> ""]])], m)
       ELSE [W0 EXCEPT !.rows = updateRow(@, row.id, [status |-> "generating"]),
                       !.batch[m].pc = "read"]

\* The rows as generateBatch holds them in `queue`: of a queued row only id
\* and file are read later on.
Snapshot(rs) == [k \in 1..Len(rs) |-> [id |-> rs[k].id, file |-> rs[k].file]]

\* A generateBatch that starts its loop without looking at the credentials.
generateBatchNoKeyCheck(W, m, rowsToGenerate) ==
    IF rowsToGenerate = <<>>
    THEN W
    ELSE LET n == Len(rowsToGenerate)
             W1 == setIsGenerating(W, m, TRUE)
             W2 == setProgress(W1, m, [total |-> n, completed |-> 0,
                                       failed |-> 0, inProgress |-> n])
             W3 == [W2 EXCEPT !.batch[m] =
                        [IdleBatch EXCEPT !.queue = Snapshot(rowsToGenerate),
                                          !.n = apiKeys, !.idx = 1]]
         IN generateForRow(W3, m)

\* generateBatch up to its first suspension.
generateBatch(W, m, rowsToGenerate) ==
    IF apiKeys = 0
    THEN \* toast.error, setApiKeyModalOpen(true), return
         [W EXCEPT !.modal = TRUE]
    ELSE IF rowsToGenerate = <<>>
    THEN \* toast.warning, return
         W
    ELSE LET n == Len(rowsToGenerate)
             W1 == setIsGenerating(W, m, TRUE)
             W2 == setProgress(W1, m, [total |-> n, completed |-> 0,
                                       failed |-> 0, inProgress |-> n])
             W3 == [W2 EXCEPT !.batch[m] =
                        \* getApiKeys of the render that started the batch
                        [IdleBatch EXCEPT !.queue = Snapshot(rowsToGenerate),
                                          !.n = apiKeys, !.idx = 1]]
         IN generateForRow(W3, m)

\* generateBatch after the loop.  For an unmounted component the two state
\* setters and the delayed setProgress do nothing, and nothing refers to the
\* instance afterwards.
BatchEnd(W, m) ==
    IF m = Page
    THEN LET W1 == setIsGenerating(W, m, FALSE)
             W2 == setTimeout(W1, "reset", m, RESET_DELAY_MS)
         IN [W2 EXCEPT !.batch[m].pc = "done", !.batch[m].tried = <<>>,
                       !.batch[m].answers = <<>>, !.batch[m].start = 0]
    ELSE [W EXCEPT !.batch[m] = IdleBatch, !.ref[m] = 0]

Commit(W) ==
    /\ rows' = W.rows
    /\ progress' = W.progress
    /\ isGenerating' = W.isGenerating
    /\ timerQ' = W.timerQ
    /\ activeKeyIndexRef' = W.ref
    /\ modelCache' = W.cache
    /\ batch' = W.batch
    /\ apiKeyModalOpen' = W.modal

\* ----------------------------------------------------------------- actions
InitProgram ==
    /\ rows = <<>>
    /\ apiKeys \in 1..MaxKeys
    /\ modelCache = -1
    /\ isGenerating = FALSE
    /\ apiKeyModalOpen = FALSE
    /\ progress = ZeroProgress
    /\ activeKeyIndexRef = [m \in Instances |-> 0]
    /\ batch = [m \in Instances |-> IdleBatch]
    /\ timerQ = <<>>
    /\ pendingDrops = <<>>
    /\ nextId = 0
    /\ userOps = 0
    /\ storedKey = apiKeys
    /\ validation = NoValidation
    /\ keyTest = IdleTest
    /\ persisted = Serializable(<<>>)

NoKeywords == [raw |-> <<>>, list |-> <<>>, applied |-> 0]

NoCsv == [rows |-> <<>>, path |-> "none", k |-> 0, thrown |-> FALSE,
          text |-> <<>>]

\* No batch run side by side: both variants of Page as they are mounted.
NoPair == [rot |-> World, single |-> World]

\* No gemini_resolved_model entry.
NoRecord == [keyPrefix |-> -1, apiVersion |-> "", modelFrom |-> ""]

NoResolver ==
    [pc |-> "idle", key |-> 0, listing |-> ListingOk, queried |-> <<>>,
     result |-> NoRecord, error |-> NoError, cache |-> NoRecord, calls |-> 0]

Init ==
    /\ InitProgram
    /\ keywords = NoKeywords
    /\ csv = NoCsv
    /\ resolver = NoResolver
    /\ pair = NoPair

\* BatchToolbarCompact Generate button -> onGenerate of Page.  The selected
\* flags of the rows are an input: handleToggleSelect is enabled at all times,
\* so any set of pending rows can be the selected ones when the button is hit.
onGenerate(selected) ==
    /\ ~apiKeyModalOpen
    /\ apiKeys > 0
    /\ ~isGenerating
    /\ userOps < MaxUserOps
    /\ selected \subseteq IdsWhere(rows, {"pending"})
    /\ LET selectedPendingRows == SelectSeqBy(rows, selected)
           list == IF Len(selectedPendingRows) > 0 THEN selectedPendingRows
                   ELSE Pending(rows)
       IN /\ Len(list) > 0
          /\ Commit(generateBatch(World, Page, list))
    /\ userOps' = userOps + 1
    /\ UNCHANGED <<apiKeys, pendingDrops, nextId>>
    /\ UNCHANGED libVars
    /\ persisted' = syncToStorage(rows', persisted, WriteOk).persisted

\* Retry Failed button -> handleRetryFailed.
handleRetryFailed ==
    /\ ~apiKeyModalOpen
    /\ ~isGenerating
    /\ userOps < MaxUserOps
    /\ Len(Failed(rows)) > 0
    /\ Commit(generateBatch(World, Page, Failed(rows)))
    /\ userOps' = userOps + 1
    /\ UNCHANGED <<apiKeys, pendingDrops, nextId>>
    /\ UNCHANGED libVars
    /\ persisted' = syncToStorage(rows', persisted, WriteOk).persisted

\* fileToBase64(row.file) settled.
FileRead(m, ok) ==
    /\ batch[m].pc = "read"
    /\ Commit(IF ok THEN TryNextKey(World, m) ELSE RowRejected(World, m))
    /\ UNCHANGED <<apiKeys, pendingDrops, nextId, userOps>>
    /\ UNCHANGED libVars
    /\ persisted' = syncToStorage(rows', persisted, WriteOk).persisted

\* generateMetadata(currentKey, base64) settled.
MetadataSettled(m, listing, resp) ==
    /\ batch[m].pc = "call"
    \* no listing request on a cache hit, no generateContent request when
    \* no model was resolved
    /\ batch[m].hit => listing = ListingOk
    /\ (~batch[m].hit /\ ~resolveModel(listing).ok) => resp = GenerateOk
    /\ Commit(AttemptSettled(World, m, listing, resp))
    /\ UNCHANGED <<apiKeys, pendingDrops, nextId, userOps>>
    /\ UNCHANGED libVars
    /\ persisted' = syncToStorage(rows', persisted, WriteOk).persisted

\* The pacing timer of a batch fired: next row, or the code after the loop.
PacingElapsed(m) ==
    /\ timerQ # <<>>
    /\ Head(timerQ).kind = "pace"
    /\ Head(timerQ).inst = m
    /\ LET W == [World EXCEPT !.timerQ = Tail(@)]
           b == batch[m]
       IN Commit(IF b.idx < Len(b.queue)
                 THEN generateForRow([W EXCEPT !.batch[m].idx = @ + 1], m)
                 ELSE BatchEnd(W, m))
    /\ UNCHANGED <<apiKeys, pendingDrops, nextId, userOps>>
    /\ UNCHANGED libVars
    /\ persisted' = syncToStorage(rows', persisted, WriteOk).persisted

\* The delayed setProgress of a finished batch fired.
ProgressReset ==
    /\ timerQ # <<>>
    /\ Head(timerQ).kind = "reset"
    /\ Head(timerQ).inst = Page
    /\ Commit(setProgress(
                 [World EXCEPT !.timerQ = Tail(@),
                               \* nothing refers to a finished generateBatch call
                               !.batch[Page] = IF @.pc = "done" THEN IdleBatch ELSE @],
                 Page, ZeroProgress))
    /\ UNCHANGED <<apiKeys, pendingDrops, nextId, userOps>>
    /\ UNCHANGED libVars
    /\ persisted' = syncToStorage(rows', persisted, WriteOk).persisted


\* Remove button of a thumbnail -> handleRemove.
handleRemove(id) ==
    /\ ~apiKeyModalOpen
    /\ userOps < MaxUserOps
    /\ userOps' = userOps + 1
    /\ \E k \in 1..Len(rows) : rows[k].id = id
    /\ rows' = removeRow(rows, id)
    /\ UNCHANGED <<apiKeys, apiKeyModalOpen, modelCache, isGenerating, progress,
                   activeKeyIndexRef, batch, timerQ, pendingDrops, nextId>>
    /\ UNCHANGED libVars
    /\ persisted' = syncToStorage(rows', persisted, WriteOk).persisted

RECURSIVE DropDuplicates(_, _)
\* onDrop: the accepted files whose name is not among existingFiles.
DropDuplicates(files, existing) ==
    IF files = <<>> THEN <<>>
    ELSE IF Head(files) \in existing THEN DropDuplicates(Tail(files), existing)
         ELSE <<Head(files)>> \o DropDuplicates(Tail(files), existing)

RECURSIVE Flatten(_)
Flatten(ss) == IF ss = <<>> THEN <<>> ELSE Head(ss) \o Flatten(Tail(ss))

\* UploadDropzone onDrop with the accepted files (all of a valid type and size).
onDrop(acceptedFiles) ==
    /\ ~apiKeyModalOpen
    /\ userOps < MaxUserOps
    /\ userOps' = userOps + 1
    /\ ~isGenerating
    /\ LET existingFilenames == {rows[k].filename : k \in 1..Len(rows)}
           valid == DropDuplicates(acceptedFiles, existingFilenames)
           allowed == MAX_FILES_PER_BATCH - Len(rows)
           validFiles == IF Len(rows) + Len(valid) > MAX_FILES_PER_BATCH
                         THEN SubSeq(valid, 1, allowed) ELSE valid
       IN /\ Len(validFiles) > 0
          /\ nextId + Len(Flatten(pendingDrops)) + Len(validFiles) <= MaxFiles
          \* onClearProcessed -> handleClearProcessed -> setRows(pendingRows)
          /\ rows' = Pending(rows)
          /\ pendingDrops' = Append(pendingDrops, validFiles)
    /\ UNCHANGED <<apiKeys, apiKeyModalOpen, modelCache, isGenerating, progress,
                   activeKeyIndexRef, batch, timerQ, nextId>>
    /\ UNCHANGED libVars
    /\ persisted' = syncToStorage(rows', persisted, WriteOk).persisted

\* Promise.all(validFiles.map(createImageRow)) of a drop resolved -> addRows.
FilesAdded(d) ==
    /\ d \in 1..Len(pendingDrops)
    /\ LET files == pendingDrops[d]
           newRows == [k \in 1..Len(files) |-> createImageRow(nextId + k, files[k])]
       IN /\ rows' = addRows(rows, newRows)
          /\ nextId' = nextId + Len(files)
    /\ pendingDrops' = [k \in 1..(Len(pendingDrops) - 1) |->
                            IF k < d THEN pendingDrops[k] ELSE pendingDrops[k + 1]]
    /\ UNCHANGED <<apiKeys, apiKeyModalOpen, modelCache, isGenerating, progress,
                   activeKeyIndexRef, batch, timerQ, userOps>>
    /\ UNCHANGED libVars
    /\ persisted' = syncToStorage(rows', persisted, WriteOk).persisted

RECURSIVE Unmounted(_, _)
\* The timers of the component being unmounted: its delayed setProgress
\* calls are dropped (they do nothing), the pacing timer of its running
\* generateBatch call stays, now owned by instance o.
Unmounted(q, o) ==
    IF q = <<>> THEN <<>>
    ELSE IF Head(q).inst # Page THEN <<Head(q)>> \o Unmounted(Tail(q), o)
    ELSE IF Head(q).kind = "reset" THEN Unmounted(Tail(q), o)
    ELSE <<[Head(q) EXCEPT !.inst = o]>> \o Unmounted(Tail(q), o)

Running(b) == b.pc \in {"read", "call", "pace"}

\* View Results, then the link back to "/": Page is unmounted and a new Page
\* is mounted with fresh state; ResultsProvider (in the layout) stays, and an
\* async generateBatch call of the old component keeps running.
Navigate ==
    /\ ~apiKeyModalOpen
    /\ userOps < MaxUserOps
    /\ userOps' = userOps + 1
    /\ isGenerating' = FALSE
    /\ progress' = ZeroProgress
    /\ IF Running(batch[Page])
       THEN \E o \in Instances \ {Page} :
               /\ ~Running(batch[o])
               /\ \A o2 \in Instances \ {Page} : o2 < o => Running(batch[o2])
               /\ batch' = [batch EXCEPT ![o] = batch[Page], ![Page] = IdleBatch]
               /\ activeKeyIndexRef' = [activeKeyIndexRef EXCEPT
                                            ![o] = activeKeyIndexRef[Page], ![Page] = 0]
               /\ timerQ' = Unmounted(timerQ, o)
       ELSE /\ batch' = [batch EXCEPT ![Page] = IdleBatch]
            /\ activeKeyIndexRef' = [activeKeyIndexRef EXCEPT ![Page] = 0]
            /\ timerQ' = Unmounted(timerQ, Page)
    /\ UNCHANGED <<rows, apiKeys, modelCache, apiKeyModalOpen, pendingDrops, nextId>>
    /\ UNCHANGED libVars
    /\ persisted' = syncToStorage(rows', persisted, WriteOk).persisted

\* Browser reload: every task of the old document is gone; ResultsProvider
\* reads the rows back from localStorage.
Reload ==
    /\ userOps < MaxUserOps
    /\ userOps' = userOps + 1
    /\ rows' = Loaded(persisted)
    /\ isGenerating' = FALSE
    /\ apiKeyModalOpen' = FALSE
    /\ progress' = ZeroProgress
    /\ activeKeyIndexRef' = [m \in Instances |-> 0]
    /\ batch' = [m \in Instances |-> IdleBatch]
    /\ timerQ' = <<>>
    /\ pendingDrops' = <<>>
    \* mount effect of ApiKeyProvider: setApiKey(apiKeyStore.load())
    /\ apiKeys' = storedKey
    /\ validation' = NoValidation
    /\ keyTest' = IdleTest
    /\ UNCHANGED <<modelCache, nextId, storedKey, persisted>>
    /\ UNCHANGED utilVars

\* ------------------------------------------------------- credential store
\* A credential string as typed into the key dialog: the length of its
\* trimmed form and the number of keys getApiKeys splits it into.  The keys of
\* all credentials are taken from one list, so key index i names the same key
\* (and the same 10-character prefix) in each of them.
Credentials ==
    { [trimmed |-> 0, keys |-> 0], [trimmed |-> MIN_KEY_LENGTH - 1, keys |-> 1] }
    \cup { [trimmed |-> MIN_KEY_LENGTH * n, keys |-> n] : n \in 1..MaxKeys }

\* apiKeyStore.validate(key)
validate(cred) ==
    IF cred.trimmed = 0
    THEN [isValid |-> FALSE, error |-> "API key cannot be empty"]
    ELSE IF cred.trimmed < MIN_KEY_LENGTH
         THEN [isValid |-> FALSE, error |-> "API key appears to be too short"]
         ELSE [isValid |-> TRUE, error |-> ""]

\* The key dialog (ApiKeyModal).  Opening it is part of the first operation
\* done in it; it stays open until it is closed with its close button or by
\* Remove, and while it is open the page behind it takes no clicks.
\* handleClose, and the effect that clears the validation of a closed dialog.
onOpenChange ==
    /\ apiKeyModalOpen
    /\ ~isTesting
    /\ apiKeyModalOpen' = FALSE
    /\ validation' = NoValidation
    /\ UNCHANGED <<rows, apiKeys, modelCache, isGenerating, progress,
                   activeKeyIndexRef, batch, timerQ, pendingDrops, nextId, userOps,
                   storedKey, keyTest, persisted>>
    /\ UNCHANGED utilVars

\* A saveKey that writes without looking at the validation result.
saveKeyUnchecked(cred, writeOk) ==
    /\ ~isTesting
    /\ userOps < MaxUserOps
    /\ userOps' = userOps + 1
    /\ storedKey' = IF writeOk THEN cred.keys ELSE storedKey
    /\ apiKeys' = IF writeOk THEN cred.keys ELSE apiKeys
    /\ validation' = IF writeOk THEN [isValid |-> TRUE, error |-> ""]
                     ELSE [isValid |-> FALSE, error |-> "Failed to save API key"]
    /\ apiKeyModalOpen' = TRUE
    /\ UNCHANGED <<rows, modelCache, isGenerating, progress, activeKeyIndexRef,
                   batch, timerQ, pendingDrops, nextId, keyTest, persisted>>
    /\ UNCHANGED utilVars

\* ApiKeyProvider.saveKey(key): validate, apiKeyStore.save, setApiKey.
\* writeOk is whether localStorage.setItem succeeded (apiKeyStore.save throws
\* otherwise and saveKey returns an invalid result).
saveKey(cred, writeOk) ==
    /\ ~isTesting
    /\ userOps < MaxUserOps
    /\ userOps' = userOps + 1
    /\ IF ~validate(cred).isValid
       THEN /\ validation' = validate(cred)
            /\ UNCHANGED <<storedKey, apiKeys>>
       ELSE IF writeOk
       THEN /\ storedKey' = cred.keys
            /\ apiKeys' = cred.keys
            /\ validation' = [isValid |-> TRUE, error |-> ""]
       ELSE /\ validation' = [isValid |-> FALSE, error |-> "Failed to save API key"]
            /\ UNCHANGED <<storedKey, apiKeys>>
    /\ apiKeyModalOpen' = TRUE
    /\ UNCHANGED <<rows, modelCache, isGenerating, progress, activeKeyIndexRef,
                   batch, timerQ, pendingDrops, nextId, keyTest, persisted>>
    /\ UNCHANGED utilVars

\* ApiKeyProvider.removeKey: apiKeyStore.remove (the credential and the
\* resolved-model record), setApiKey(null); the dialog closes.  The Remove
\* button shows when a key is configured.  The field `removed` of a
\* generateMetadata call in flight records that remove() ran after the call
\* read the cache.
removeKey ==
    /\ apiKeys > 0
    /\ ~isTesting
    /\ userOps < MaxUserOps
    /\ userOps' = userOps + 1
    /\ storedKey' = 0
    /\ modelCache' = -1
    /\ apiKeys' = 0
    /\ validation' = NoValidation
    /\ apiKeyModalOpen' = FALSE
    /\ batch' = [m \in Instances |->
                    IF batch[m].pc = "call"
                    THEN [batch[m] EXCEPT !.removed = TRUE] ELSE batch[m]]
    /\ UNCHANGED <<rows, isGenerating, progress, activeKeyIndexRef,
                   timerQ, pendingDrops, nextId, keyTest, persisted>>
    /\ UNCHANGED utilVars

\* ApiKeyProvider.testKey(key) -> apiKeyStore.test(key) up to its first
\* suspension: an invalid credential returns the validation result at once;
\* otherwise getOrResolveModel is called with the whole credential, whose
\* first 10 characters are those of its first key.
testKey(cred) ==
    /\ ~isTesting
    /\ userOps < MaxUserOps
    /\ userOps' = userOps + 1
    /\ apiKeyModalOpen' = TRUE
    /\ IF ~validate(cred).isValid
       THEN /\ validation' = validate(cred)
            /\ UNCHANGED keyTest
       ELSE /\ keyTest' = [pc |-> "call", hit |-> (modelCache = 0)]
            /\ UNCHANGED validation
    /\ UNCHANGED <<rows, apiKeys, modelCache, isGenerating, progress,
                   activeKeyIndexRef, batch, timerQ, pendingDrops, nextId,
                   storedKey, persisted>>
    /\ UNCHANGED utilVars

\* apiKeyStore.test settled: getOrResolveModel (listing request on a cache
\* miss, cache write when a model was resolved), then the test request, which
\* passes on any 2xx answer.
TestSettled(listing, resp) ==
    /\ isTesting
    /\ keyTest.hit => listing = ListingOk
    /\ (~keyTest.hit /\ ~resolveModel(listing).ok) => resp = GenerateOk
    /\ LET resolved == IF keyTest.hit THEN [ok |-> TRUE, error |-> NoError]
                       ELSE resolveModel(listing)
       IN /\ modelCache' = IF ~keyTest.hit /\ resolved.ok THEN 0 ELSE modelCache
          /\ validation' =
                IF resolved.ok /\ resp.transport = "ok" /\ resp.status = 200
                THEN [isValid |-> TRUE, error |-> ""]
                ELSE [isValid |-> FALSE, error |-> "API key test failed"]
    /\ keyTest' = IdleTest
    /\ UNCHANGED <<rows, apiKeys, isGenerating, apiKeyModalOpen, progress,
                   activeKeyIndexRef, batch, timerQ, pendingDrops, nextId, userOps,
                   storedKey, persisted>>
    /\ UNCHANGED utilVars

Drops == UNION {[1..n -> Filenames] : n \in 1..MaxDrop}

\* ------------------------------------------ Result Store, any write outcome
\* The operations of ResultsProvider on their own, with localStorage failing
\* in every way it can.  Everything outside the provider stays as it is.
outsideStore == <<apiKeys, modelCache, isGenerating, apiKeyModalOpen, progress,
                  activeKeyIndexRef, batch, timerQ, pendingDrops, credVars,
                  utilVars>>

\* The updater each operation hands to setRowsState: syncToStorage(updated),
\* then return updated.  An exception leaving syncToStorage would leave the
\* updater before its return.
setRowsState(updated, w) ==
    LET r == syncToStorage(updated, persisted, w)
    IN /\ rows' = IF r.thrown THEN rows ELSE updated
       /\ persisted' = r.persisted

\* The updates generateForRow makes to a row.
RowUpdates ==
    { [status |-> "generating"],
      [status |-> "success", metadata |-> TRUE, error |-> NoRowError],
      [status |-> "error",
       error |-> [text |-> "File missing", keys |-> 0, cause |-> ""]] }

ResultsAddRows(files, w) ==
    /\ userOps < MaxUserOps
    /\ userOps' = userOps + 1
    /\ nextId + Len(files) <= MaxFiles
    /\ nextId' = nextId + Len(files)
    /\ setRowsState(addRows(rows, [k \in 1..Len(files) |->
                                      createImageRow(nextId + k, files[k])]), w)
    /\ UNCHANGED outsideStore

ResultsUpdateRow(id, updates, w) ==
    /\ userOps < MaxUserOps
    /\ userOps' = userOps + 1
    /\ setRowsState(updateRow(rows, id, updates), w)
    /\ UNCHANGED <<nextId, outsideStore>>

ResultsRemoveRow(id, w) ==
    /\ userOps < MaxUserOps
    /\ userOps' = userOps + 1
    /\ setRowsState(removeRow(rows, id), w)
    /\ UNCHANGED <<nextId, outsideStore>>

\* setRows as handleClearProcessed calls it.
ResultsSetRows(w) ==
    /\ userOps < MaxUserOps
    /\ userOps' = userOps + 1
    /\ setRowsState(Pending(rows), w)
    /\ UNCHANGED <<nextId, outsideStore>>

\* A page load: the rows state starts from the entry.
ResultsLoad ==
    /\ userOps < MaxUserOps
    /\ userOps' = userOps + 1
    /\ rows' = Loaded(persisted)
    /\ UNCHANGED <<persisted, nextId, outsideStore>>

StoreNext ==
    \/ \E files \in Drops, w \in WriteOutcomes : ResultsAddRows(files, w)
    \/ \E id \in 1..MaxFiles, updates \in RowUpdates, w \in WriteOutcomes :
          ResultsUpdateRow(id, updates, w)
    \/ \E id \in 1..MaxFiles, w \in WriteOutcomes : ResultsRemoveRow(id, w)
    \/ \E w \in WriteOutcomes : ResultsSetRows(w)
    \/ ResultsLoad

StoreSpec == Init /\ [][StoreNext]_vars

\* -------------------------------------------------------- keyword utilities
\* A string is the sequence of its characters.
Chars == {"a", "A", " "}

Strings(n) == UNION {[1..k -> Chars] : k \in 0..n}

\* String.prototype.toLowerCase
toLowerCase(str) == [k \in 1..Len(str) |-> IF str[k] = "A" THEN "a" ELSE str[k]]

RECURSIVE trimStart(_)
trimStart(str) ==
    IF str # <<>> /\ Head(str) = " " THEN trimStart(Tail(str)) ELSE str

RECURSIVE trimEnd(_)
trimEnd(str) ==
    IF str # <<>> /\ str[Len(str)] = " "
    THEN trimEnd(SubSeq(str, 1, Len(str) - 1)) ELSE str

\* String.prototype.trim
trim(str) == trimEnd(trimStart(str))

\* A normalizeKeyword that keeps the letter case.
normalizeKeywordKeepCase(keyword) ==
    LET normalized == trim(keyword)
    IN [isNull |-> Len(normalized) = 0, value |-> normalized]

\* normalizeKeyword(keyword): the normalised keyword, or null.
normalizeKeyword(keyword) ==
    LET normalized == toLowerCase(trim(keyword))
    IN [isNull |-> Len(normalized) = 0, value |-> normalized]

RECURSIVE FromSet(_, _)
\* Array.from(new Set(list)): a Set keeps the first insertion of each value
\* (seen holds the values inserted so far).
FromSet(list, seen) ==
    IF list = <<>> THEN <<>>
    ELSE IF Head(list) \in seen THEN FromSet(Tail(list), seen)
         ELSE <<Head(list)>> \o FromSet(Tail(list), seen \cup {Head(list)})

\* normalizeKeywords(keywords)
normalizeKeywords(list) ==
    LET mapped == [k \in 1..Len(list) |-> normalizeKeyword(list[k])]
        kept == SelectSeq(mapped, LAMBDA kw : ~kw.isNull)
        normalized == [k \in 1..Len(kept) |-> kept[k].value]
    IN FromSet(normalized, {})

KeywordLists == UNION {[1..n -> Strings(MaxKeywordLen)] : n \in 0..MaxKeywords}

\* The keyword list is any list of strings; normalizeKeywords is applied to
\* it, and once more to its own output.
KeywordsInit ==
    /\ InitProgram
    /\ csv = NoCsv
    /\ resolver = NoResolver
    /\ pair = NoPair
    /\ \E list \in KeywordLists :
          keywords = [raw |-> list, list |-> list, applied |-> 0]

Normalize ==
    /\ keywords.applied < 2
    /\ keywords' = [keywords EXCEPT !.list = normalizeKeywords(@),
                                    !.applied = @ + 1]
    /\ UNCHANGED <<rows, apiKeys, modelCache, isGenerating, apiKeyModalOpen,
                   progress, activeKeyIndexRef, batch, timerQ, pendingDrops,
                   nextId, userOps, credVars, persisted, csv, resolver, pair>>

KeywordsNext == Normalize

KeywordsSpec == KeywordsInit /\ [][KeywordsNext]_vars

\* ------------------------------------------------------------ CSV utilities
Comma == ","

Quote == "\""

Newline == "\n"

CsvChars == {"x", " ", Comma, Quote, Newline}

\* CSV_COLUMNS; the letters of a column name are kept together as one
\* element of the string.
CSV_COLUMNS ==
    << <<"Filename">>, <<"Title">>, <<"Description">>, <<"Keywords">> >>

\* String.prototype.includes for a single character.
includes(str, c) == \E k \in 1..Len(str) : str[k] = c

RECURSIVE join(_, _)
\* Array.prototype.join
join(list, sep) ==
    IF list = <<>> THEN <<>>
    ELSE IF Len(list) = 1 THEN Head(list)
         ELSE Head(list) \o sep \o join(Tail(list), sep)

RECURSIVE replaceQuotes(_)
\* stringValue.replace(/"/g, '""')
replaceQuotes(str) ==
    IF str = <<>> THEN <<>>
    ELSE (IF Head(str) = Quote THEN <<Quote, Quote>> ELSE <<Head(str)>>)
         \o replaceQuotes(Tail(str))

\* escapeCsvField(value)
escapeCsvField(value) ==
    IF includes(value, Comma) \/ includes(value, Quote) \/ includes(value, Newline)
    THEN <<Quote>> \o replaceQuotes(value) \o <<Quote>>
    ELSE value

\* imageRowToCsvRow, as the list of the values of the four columns.
imageRowToCsvRow(imageRow) ==
    <<imageRow.filename, imageRow.title, imageRow.description, imageRow.keywords>>

\* rowToCsvLine(row)
rowToCsvLine(row) ==
    join([k \in 1..Len(row) |-> escapeCsvField(row[k])], <<Comma>>)

\* A row test of generateCsv that does not look at the status.
validRowAnyStatus(row) ==
    /\ Len(trim(row.title)) > 0
    /\ Len(trim(row.description)) > 0
    /\ Len(trim(row.keywords)) > 0

\* The filter of generateCsv.
validRow(row) ==
    /\ row.status = "success"
    /\ row.title # <<>> /\ Len(trim(row.title)) > 0
    /\ row.description # <<>> /\ Len(trim(row.description)) > 0
    /\ row.keywords # <<>> /\ Len(trim(row.keywords)) > 0

\* generateCsv(imageRows): the text, or the thrown Error.
generateCsv(imageRows) ==
    LET validRows == SelectSeq(imageRows, validRow)
        header == join(CSV_COLUMNS, <<Comma>>)
        csvLines == [k \in 1..Len(validRows) |->
                        rowToCsvLine(imageRowToCsvRow(validRows[k]))]
    IN IF Len(validRows) = 0
       THEN [thrown |-> TRUE, text |-> <<>>]
       ELSE [thrown |-> FALSE, text |-> join(<<header>> \o csvLines, <<Newline>>)]

\* csvContent of handleExport on the result detail page.
csvContent(row) ==
    join(CSV_COLUMNS, <<Comma>>) \o <<Newline>>
    \o row.filename \o <<Comma>>
    \o <<Quote>> \o row.title \o <<Quote>> \o <<Comma>>
    \o <<Quote>> \o row.description \o <<Quote>> \o <<Comma>>
    \o <<Quote>> \o row.keywords \o <<Quote>>

\* The rows handed to the export: rows as they come out of a batch, and
\* success rows whose fields hold the characters a CSV writer has to escape.
FieldStrings == UNION {[1..n -> CsvChars] : n \in 0..MaxFieldLen}

Blanks == {<<>>, <<" ">>, <<"x">>}

BatchRows ==
    {[status |-> st, filename |-> <<"x">>, title |-> t, description |-> d,
      keywords |-> kw] :
        st \in {"pending", "generating", "success", "error"},
        t \in Blanks, d \in Blanks, kw \in Blanks}

SpecialRows ==
    {[status |-> "success", filename |-> fn, title |-> t, description |-> d,
      keywords |-> kw] :
        fn \in FieldStrings \ {<<>>}, t \in FieldStrings,
        d \in {<<"x">>, <<Comma, Quote>>}, kw \in {<<"x">>, <<"x", Comma>>}}

CsvInputs ==
    UNION {[1..n -> BatchRows] : n \in 0..MaxCsvRows}
    \cup {<<row>> : row \in SpecialRows}

CsvInit ==
    /\ InitProgram
    /\ keywords = NoKeywords
    /\ resolver = NoResolver
    /\ pair = NoPair
    /\ \E list \in CsvInputs : csv = [NoCsv EXCEPT !.rows = list]

\* Export button of the results page -> handleExport -> generateCsv(rows).
ExportAll ==
    /\ csv.path = "none"
    /\ LET r == generateCsv(csv.rows)
       IN csv' = [csv EXCEPT !.path = "bulk", !.thrown = r.thrown, !.text = r.text]
    /\ UNCHANGED <<rows, apiKeys, modelCache, isGenerating, apiKeyModalOpen,
                   progress, activeKeyIndexRef, batch, timerQ, pendingDrops,
                   nextId, userOps, credVars, persisted, keywords, resolver,
                   pair>>

\* Export button of the result detail page of row k -> handleExport.
handleExport(k) ==
    /\ csv.path = "none"
    /\ k \in 1..Len(csv.rows)
    /\ csv.rows[k].status = "success"
    /\ csv' = [csv EXCEPT !.path = "single", !.k = k,
                          !.text = csvContent(csv.rows[k])]
    /\ UNCHANGED <<rows, apiKeys, modelCache, isGenerating, apiKeyModalOpen,
                   progress, activeKeyIndexRef, batch, timerQ, pendingDrops,
                   nextId, userOps, credVars, persisted, keywords, resolver,
                   pair>>

CsvNext ==
    \/ ExportAll
    \/ \E k \in 1..MaxCsvRows : handleExport(k)

CsvSpec == CsvInit /\ [][CsvNext]_vars

\* ----------------------------------------------------------- model resolver
\* getOrResolveModel on its own: calls with any key, the two listing
\* variants answering in every combination.
outsideResolver == <<rows, apiKeys, modelCache, isGenerating, apiKeyModalOpen,
                     progress, activeKeyIndexRef, batch, timerQ, pendingDrops,
                     nextId, userOps, credVars, persisted, keywords, csv, pair>>

\* getOrResolveModel(apiKey) up to its return or its first suspension: the
\* record is returned when its keyPrefix is that of the key, else resolveModel
\* is called.
getOrResolveModel(key, listing) ==
    /\ resolver.pc # "resolving"
    /\ resolver.calls < MaxResolves
    /\ IF resolver.cache.keyPrefix = key
       THEN resolver' = [resolver EXCEPT !.pc = "returned", !.key = key,
                                         !.listing = ListingOk, !.queried = <<>>,
                                         !.result = resolver.cache,
                                         !.error = NoError, !.calls = @ + 1]
       ELSE resolver' = [resolver EXCEPT !.pc = "resolving", !.key = key,
                                         !.listing = listing, !.queried = <<>>,
                                         !.result = NoRecord,
                                         !.error = NoError, !.calls = @ + 1]
    /\ UNCHANGED outsideResolver

\* getOrResolveModel after `await resolveModel(apiKey)`: the result is
\* written to the entry and returned; a rejection leaves the function.
ResolveSettled ==
    /\ resolver.pc = "resolving"
    /\ LET r == resolveModel(resolver.listing)
           record == [keyPrefix |-> resolver.key, apiVersion |-> r.apiVersion,
                      modelFrom |-> r.modelFrom]
       IN resolver' =
             IF r.ok
             THEN [resolver EXCEPT !.pc = "returned", !.queried = r.queried,
                                   !.result = record, !.cache = record]
             ELSE [resolver EXCEPT !.pc = "thrown", !.queried = r.queried,
                                   !.error = r.error]
    /\ UNCHANGED outsideResolver

ResolverNext ==
    \/ \E key \in 0..(MaxKeys - 1), listing \in AllListings :
          getOrResolveModel(key, listing)
    \/ ResolveSettled

ResolverSpec == Init /\ [][ResolverNext]_vars

\* ------------------------------------------- single-credential orchestrator
\* The Page variant that takes one credential (generateForRow(row, apiKey)),
\* written over the same record W as the rotating one.
SUCCESS_DELAY_SINGLE_MS == 5000

ERROR_DELAY_SINGLE_MS == 10000

\* generateBatch of the single variant, try branch.
RowResolvedSingle(W, m) ==
    LET W1 == [W EXCEPT !.batch[m].succ = @ + 1, !.batch[m].pc = "pace",
                        !.batch[m] = Returned(@)]
        W2 == setProgress(W1, m, [W1.progress EXCEPT !.completed = @ + 1,
                                                     !.inProgress = @ - 1])
    IN setTimeout(W2, "pace", m, SUCCESS_DELAY_SINGLE_MS)

\* generateBatch of the single variant, catch branch.
RowRejectedSingle(W, m) ==
    LET W1 == [W EXCEPT !.batch[m].fail = @ + 1, !.batch[m].pc = "pace",
                        !.batch[m] = Returned(@)]
        W2 == setProgress(W1, m, [W1.progress EXCEPT !.failed = @ + 1,
                                                     !.inProgress = @ - 1])
    IN setTimeout(W2, "pace", m, ERROR_DELAY_SINGLE_MS)

\* generateForRow of the single variant, catch block: the row is marked
\* before the error is thrown on.
CatchSingle(W, m, error) ==
    LET b == W.batch[m]
        row == b.queue[b.idx]
        errorMessage == IF error.code = "QUOTA_EXCEEDED"
                        THEN "Daily Quota Exceeded (Wait 24h)"
                        ELSE IF error.isError THEN error.message ELSE "Failed"
        W1 == [W EXCEPT !.batch[m].lastError = error,
                        !.rows = updateRow(@, row.id,
                            [status |-> "error",
                             error |-> [text |-> errorMessage, keys |-> 0,
                                        cause |-> ""]])]
    IN RowRejectedSingle(W1, m)

\* generateForRow of the single variant once fileToBase64 settled.
FileReadSingle(W, m, ok) ==
    IF ok
    THEN [W EXCEPT !.batch[m].pc = "call", !.batch[m].key = 0,
                   !.batch[m].hit = (W.cache = 0),
                   !.batch[m].tried = Append(@, 0)]
    ELSE CatchSingle(W, m, ErrorOf("Error reading file"))

\* generateForRow of the single variant once generateMetadata settled.
AttemptSettledSingle(W, m, listing, resp) ==
    LET b == W.batch[m]
        row == b.queue[b.idx]
        resolved == IF b.hit THEN [ok |-> TRUE, error |-> NoError]
                    ELSE resolveModel(listing)
        W1 == [W EXCEPT !.cache = IF ~b.hit /\ resolved.ok THEN b.key ELSE @,
                        !.batch[m].answers = Append(@, Answer(b.hit, listing, resp))]
        response == generateMetadata(resolved, resp)
        keywordResult == processKeywords(response.body)
    IN IF response.ok /\ keywordResult.ok
       THEN RowResolvedSingle(
                [W1 EXCEPT !.rows = updateRow(@, row.id,
                               [status |-> "success", metadata |-> TRUE,
                                error |-> NoRowError])], m)
       ELSE CatchSingle(W1, m, IF response.ok THEN keywordResult.error
                               ELSE response.error)

\* generateForRow of the single variant up to its first suspension.
generateForRowSingle(W, m) ==
    LET b == W.batch[m]
        row == b.queue[b.idx]
        W0 == [W EXCEPT !.batch[m].attempted = Append(@, row.id),
                        !.batch[m].tried = <<>>, !.batch[m].answers = <<>>,
                        !.batch[m].lastError = NoError]
    IN IF ~row.file
       THEN RowResolvedSingle(
                [W0 EXCEPT !.rows = updateRow(@, row.id,
                               [status |-> "error",
                                error |-> [text |-> "File missing", keys |-> 0,
                                           cause |-> ""]])], m)
       ELSE [W0 EXCEPT !.rows = updateRow(@, row.id, [status |-> "generating"]),
                       !.batch[m].pc = "read"]

\* generateBatch of the single variant up to its first suspension.
generateBatchSingle(W, m, rowsToGenerate) ==
    IF apiKeys = 0
    THEN [W EXCEPT !.modal = TRUE]
    ELSE IF rowsToGenerate = <<>>
    THEN W
    ELSE LET n == Len(rowsToGenerate)
             W1 == setIsGenerating(W, m, TRUE)
             W2 == setProgress(W1, m, [total |-> n, completed |-> 0,
                                       failed |-> 0, inProgress |-> n])
             W3 == [W2 EXCEPT !.batch[m] =
                        [IdleBatch EXCEPT !.queue = Snapshot(rowsToGenerate),
                                          !.n = 1, !.idx = 1]]
         IN generateForRowSingle(W3, m)

\* generateBatch of the single variant after the loop.
BatchEndSingle(W, m) ==
    LET W1 == setIsGenerating(W, m, FALSE)
        W2 == setTimeout(W1, "reset", m, RESET_DELAY_MS)
    IN [W2 EXCEPT !.batch[m].pc = "done", !.batch[m].tried = <<>>,
                  !.batch[m].answers = <<>>]

\* ------------------------------------------------ the two variants in step
\* One batch over the same rows, run by the rotating Page with one credential
\* and by the single-credential Page, each on its own store and browser, the
\* provider answering both alike.
outsidePair == <<rows, apiKeys, modelCache, isGenerating, apiKeyModalOpen,
                 progress, activeKeyIndexRef, batch, timerQ, pendingDrops,
                 nextId, userOps, credVars, persisted, keywords, csv, resolver>>

\* The rows of the batch: uploaded in this page load (with their File), or
\* read back from localStorage (without).
PairRow(k, hasFile) ==
    LET row == createImageRow(k, IF k = 1 THEN "a.jpg" ELSE "b.jpg")
    IN IF hasFile THEN row ELSE Reloaded(<<row>>)[1]

PairRows ==
    UNION {{[k \in 1..n |-> PairRow(k, files[k])] : files \in [1..n -> BOOLEAN]} :
              n \in 1..MaxPairRows}

PairInit ==
    /\ InitProgram
    /\ apiKeys = 1
    /\ keywords = NoKeywords
    /\ csv = NoCsv
    /\ resolver = NoResolver
    /\ \E list \in PairRows :
          pair = [rot |-> [World EXCEPT !.rows = list],
                  single |-> [World EXCEPT !.rows = list]]

\* Generate All on both pages.
PairGenerate ==
    /\ pair.rot.batch[Page].pc = "idle"
    /\ pair.single.batch[Page].pc = "idle"
    /\ pair' = [rot |-> generateBatch(pair.rot, Page, Pending(pair.rot.rows)),
                single |-> generateBatchSingle(pair.single, Page,
                                               Pending(pair.single.rows))]
    /\ UNCHANGED outsidePair

\* fileToBase64 settled on both pages.
PairFileRead(ok) ==
    /\ pair.rot.batch[Page].pc = "read"
    /\ pair.single.batch[Page].pc = "read"
    /\ pair' = [rot |-> IF ok THEN TryNextKey(pair.rot, Page)
                        ELSE RowRejected(pair.rot, Page),
                single |-> FileReadSingle(pair.single, Page, ok)]
    /\ UNCHANGED outsidePair

\* generateMetadata settled on both pages.
PairMetadataSettled(listing, resp) ==
    /\ pair.rot.batch[Page].pc = "call"
    /\ pair.single.batch[Page].pc = "call"
    /\ pair.rot.batch[Page].hit = pair.single.batch[Page].hit
    /\ pair.rot.batch[Page].hit => listing = ListingOk
    /\ (~pair.rot.batch[Page].hit /\ ~resolveModel(listing).ok) => resp = GenerateOk
    /\ pair' = [rot |-> AttemptSettled(pair.rot, Page, listing, resp),
                single |-> AttemptSettledSingle(pair.single, Page, listing, resp)]
    /\ UNCHANGED outsidePair

\* The pacing timer fired on both pages.
PairPacingElapsed ==
    /\ pair.rot.batch[Page].pc = "pace"
    /\ pair.single.batch[Page].pc = "pace"
    /\ LET R == [pair.rot EXCEPT !.timerQ = Tail(@)]
           S == [pair.single EXCEPT !.timerQ = Tail(@)]
       IN pair' =
             [rot |-> IF R.batch[Page].idx < Len(R.batch[Page].queue)
                      THEN generateForRow([R EXCEPT !.batch[Page].idx = @ + 1], Page)
                      ELSE BatchEnd(R, Page),
              single |-> IF S.batch[Page].idx < Len(S.batch[Page].queue)
                         THEN generateForRowSingle(
                                  [S EXCEPT !.batch[Page].idx = @ + 1], Page)
                         ELSE BatchEndSingle(S, Page)]
    /\ UNCHANGED outsidePair

PairNext ==
    \/ PairGenerate
    \/ \E ok \in BOOLEAN : PairFileRead(ok)
    \/ \E listing \in ListingResponses, resp \in GenerateResponses :
          PairMetadataSettled(listing, resp)
    \/ PairPacingElapsed

PairSpec == PairInit /\ [][PairNext]_vars


Next ==
    \/ \E selected \in SUBSET (1..MaxFiles) : onGenerate(selected)
    \/ handleRetryFailed
    \/ \E m \in Instances, ok \in BOOLEAN : FileRead(m, ok)
    \/ \E m \in Instances, listing \in ListingResponses, resp \in GenerateResponses :
          MetadataSettled(m, listing, resp)
    \/ \E m \in Instances : PacingElapsed(m)
    \/ ProgressReset
    \/ \E id \in 1..MaxFiles : handleRemove(id)
    \/ \E files \in Drops : onDrop(files)
    \/ \E d \in 1..MaxFiles : FilesAdded(d)
    \/ Navigate
    \/ Reload
    \/ \E cred \in Credentials, writeOk \in BOOLEAN : saveKey(cred, writeOk)
    \/ removeKey
    \/ \E cred \in Credentials : testKey(cred)
    \/ \E listing \in ListingResponses, resp \in GenerateResponses :
          TestSettled(listing, resp)
    \/ onOpenChange

Spec == Init /\ [][Next]_vars

TypeOK ==
    /\ isGenerating \in BOOLEAN
    /\ apiKeys \in 0..MaxKeys
    /\ modelCache \in -1..(MaxKeys - 1)
    /\ nextId \in 0..MaxFiles
    /\ \A k \in 1..Len(rows) :
          rows[k].status \in {"pending", "generating", "success", "error"}
    /\ \A m \in Instances : batch[m].pc \in {"idle", "read", "call", "pace", "done"}


\* ------------------------------------------------------------------ claims
Last(q) == q[Len(q)]

\* The row a running generateForRow call works on, and its current entry in
\* the Result Store (none when the row was removed meanwhile).
CurrentRowId(m) == batch[m].queue[batch[m].idx].id

StoreRows(rs, id) == {k \in 1..Len(rs) : rs[k].id = id}

\* A step of the program that is not a user operation: instances keep their
\* slot across it.
ProgramStep == userOps' = userOps

\* The candidate order of generateForRow: start, start+1, ... modulo the
\* number of credentials.
RoundRobin(start, n, keys) == [j \in 1..n |-> (start + j - 1) % keys]

\* The next state shows that the failure of the settled attempt was treated
\* as a quota failure: the next candidate is being called, or, when no
\* candidate is left, the row carries the exhaustion message.
FailoverEligible(m) ==
    IF Len(batch[m].tried) < batch[m].n
    THEN /\ batch'[m].pc = "call"
         /\ batch'[m].tried = RoundRobin(batch[m].start, Len(batch[m].tried) + 1,
                                         batch[m].n)
    ELSE \A k \in StoreRows(rows', CurrentRowId(m)) :
            /\ rows'[k].status = "error"
            /\ rows'[k].error.text = "All keys exhausted or failed"

\* C1: when the generateContent call answers HTTP 429, the failure that
\* generateMetadata hands to generateForRow passes the quota test, so the
\* row goes on to the next credential (or to exhaustion).
C1_Http429IsQuotaExceeded ==
    [][\A m \in Instances : \A resp \in GenerateResponses :
          (/\ resp.transport = "ok"
           /\ resp.status = 429
           /\ MetadataSettled(m, ListingOk, resp))
          => FailoverEligible(m)]_vars

\* C2: credentials are tried in round-robin order from the last-known-good
\* index; a credential that answers with a quota error is followed by the
\* next candidate, and the credential that succeeds ends the row in success
\* and becomes the last-known-good index for the next row.
C2_RotationReachesWorkingKey ==
    [][\A m \in Instances :
          (ProgramStep /\ batch[m].pc = "call"
             /\ Len(batch'[m].answers) = Len(batch[m].answers) + 1)
          => /\ batch[m].tried = RoundRobin(batch[m].start, Len(batch[m].tried),
                                            batch[m].n)
             /\ Last(batch'[m].answers) = "quota" => FailoverEligible(m)
             /\ Last(batch'[m].answers) = "success" =>
                   /\ batch'[m].pc = "pace"
                   /\ batch'[m].tried = batch[m].tried
                   /\ activeKeyIndexRef'[m] = Last(batch[m].tried)
                   /\ \A k \in StoreRows(rows', CurrentRowId(m)) :
                         rows'[k].status = "success"]_vars

AllQuota(answers) ==
    answers # <<>> /\ \A j \in 1..Len(answers) : answers[j] = "quota"

\* C3: when every credential answered the row with a quota error, the row is
\* in error with a message that cites the number of credentials, and each
\* credential index was tried exactly once.
C3_ExhaustionMarksError ==
    \A m \in Instances :
        (batch[m].pc = "pace" /\ AllQuota(batch[m].answers))
        => /\ Len(batch[m].tried) = batch[m].n
           /\ {batch[m].tried[j] : j \in 1..Len(batch[m].tried)} = 0..(batch[m].n - 1)
           /\ \A k \in StoreRows(rows, CurrentRowId(m)) :
                 /\ rows[k].status = "error"
                 /\ rows[k].error.keys = batch[m].n

\* C4: a row whose attempt ended with a non-quota failure of the Metadata
\* Client (timeout, ApiError, malformed response) is in error with a message
\* before the batch moves on.
C4_NonQuotaFailureMarksError ==
    \A m \in Instances :
        (/\ batch[m].pc = "pace"
         /\ batch[m].answers # <<>>
         /\ Last(batch[m].answers) = "failure")
        => \A k \in StoreRows(rows, CurrentRowId(m)) :
              /\ rows[k].status = "error"
              /\ rows[k].error.text # ""

\* The failure kinds the orchestrator classifies as quota.
QuotaClassified(error) ==
    \/ error.code = "QUOTA_EXCEEDED"
    \/ (error.isError /\ Includes429(error.message))

\* C5: a further credential is called for a row only after a failure that
\* was classified as quota; after any other failure no further call is made
\* for the row, however many credentials are left.
C5_OnlyQuotaRotates ==
    \A m \in Instances :
        /\ batch[m].pc = "call"
              => /\ Len(batch[m].tried) = Len(batch[m].answers) + 1
                 /\ Len(batch[m].tried) > 1 => QuotaClassified(batch[m].lastError)
        /\ (batch[m].pc = "pace" /\ batch[m].tried # <<>>)
              => Len(batch[m].tried) = Len(batch[m].answers)

\* C5 witness: a row settled after one call that failed without a quota
\* classification although a second credential was left.
C5_Witness ==
    \E m \in Instances :
        /\ batch[m].pc = "pace"
        /\ batch[m].n >= 2
        /\ Len(batch[m].tried) = 1
        /\ batch[m].answers = <<"failure">>

\* C6: when a batch on the page has ended, total is the number of rows it was
\* given, completed + failed = total and inProgress = 0, also for a batch
\* that was started shortly after the previous one.
C6_ProgressAddsUpAtEnd ==
    batch[Page].pc = "done"
    => /\ progress.total = Len(batch[Page].queue)
       /\ progress.completed + progress.failed = progress.total
       /\ progress.inProgress = 0

AllowedTransitions ==
    { <<"pending", "generating">>, <<"generating", "success">>,
      <<"generating", "error">>, <<"error", "generating">> }

\* C7: the status of a row changes only along pending -> generating,
\* generating -> success, generating -> error and error -> generating.
C7_StatusTransitions ==
    [][\A k \in 1..Len(rows) : \A k2 \in 1..Len(rows') :
          (rows[k].id = rows'[k2].id /\ rows[k].status # rows'[k2].status)
          => <<rows[k].status, rows'[k2].status>> \in AllowedTransitions]_vars

\* The rows of a batch that are in the Result Store with status st.
BatchRowsWith(b, st) ==
    {j \in 1..Len(b.queue) :
        \E k \in StoreRows(rows, b.queue[j].id) : rows[k].status = st}

\* C8: at the end of a batch, whose rows are all still in the store, the
\* reported failure count is the number of its rows in error and the
\* reported completion count the number of its rows in success.
C8_CountsMatchStatuses ==
    (/\ batch[Page].pc = "done"
     /\ \A j \in 1..Len(batch[Page].queue) :
           StoreRows(rows, batch[Page].queue[j].id) # {})
    => /\ batch[Page].fail = Cardinality(BatchRowsWith(batch[Page], "error"))
       /\ batch[Page].succ = Cardinality(BatchRowsWith(batch[Page], "success"))

\* The rows generateBatch has started so far are the first idx rows of its
\* list, in order.
AttemptedInOrder(b) ==
    /\ b.idx \in 1..Len(b.queue)
    /\ b.attempted = [k \in 1..b.idx |-> b.queue[k].id]

\* C9: generateBatch starts the rows of its list once each and in list order;
\* no outcome of a row ends the batch: a settled row leaves the pacing timer
\* pending, the row after it is started when that timer fires, and the batch
\* ends after its last row and not before.
C9_EveryRowAttemptedInOrder ==
    /\ [](\A m \in Instances :
            /\ Running(batch[m]) => AttemptedInOrder(batch[m])
            /\ batch[m].pc = "done" =>
                  /\ AttemptedInOrder(batch[m])
                  /\ batch[m].idx = Len(batch[m].queue)
                  /\ batch[m].succ + batch[m].fail = Len(batch[m].queue)
            /\ batch[m].pc = "pace" =>
                  \E t \in 1..Len(timerQ) :
                      timerQ[t].kind = "pace" /\ timerQ[t].inst = m)
    /\ [][\A m \in Instances :
            (ProgramStep /\ Running(batch[m]) /\ batch'[m] # batch[m])
            => IF batch[m].pc = "pace"
               THEN IF batch[m].idx < Len(batch[m].queue)
                    THEN /\ Running(batch'[m])
                         /\ batch'[m].queue = batch[m].queue
                         /\ batch'[m].idx = batch[m].idx + 1
                    ELSE ~Running(batch'[m])
               ELSE /\ batch'[m].pc \in {"call", "pace"}
                    /\ batch'[m].queue = batch[m].queue
                    /\ batch'[m].idx = batch[m].idx]_vars

\* C9 witness: a batch of two rows has ended, one row succeeded and one
\* failed.
C9_Witness ==
    /\ batch[Page].pc = "done"
    /\ Len(batch[Page].queue) = 2
    /\ Len(batch[Page].attempted) = 2
    /\ batch[Page].succ = 1
    /\ batch[Page].fail = 1

\* C10: at most one generateMetadata call is in flight at any time.
C10_OneCallInFlight ==
    Cardinality({m \in Instances : batch[m].pc = "call"}) <= 1


\* The part of the world a batch run consists of: everything but the dialog
\* flag, which is how the notice for missing credentials shows.
RunOf(W) == [rows |-> W.rows, progress |-> W.progress,
             isGenerating |-> W.isGenerating, timerQ |-> W.timerQ,
             ref |-> W.ref, cache |-> W.cache, batch |-> W.batch]

\* The row lists the three handlers of Page can pass to generateBatch.
RowLists == {Pending(rows), Failed(rows), rows, <<>>}

\* C11: generateBatch called with an empty credential list or an empty row
\* list returns without effect on the run: rows, progress, isGenerating, the
\* last-known-good index, the timers and the batch (hence no remote call) are
\* as before; with no credential the only trace is the opened key dialog.
\* The one call with no credential the UI can make is Retry Failed.
C11_EmptyBatchIsNoOp ==
    /\ [](/\ RunOf(generateBatch(World, Page, <<>>)) = RunOf(World)
          /\ apiKeys = 0 =>
                \A list \in RowLists :
                    /\ RunOf(generateBatch(World, Page, list)) = RunOf(World)
                    /\ generateBatch(World, Page, list).modal)
    /\ [][(apiKeys = 0 /\ handleRetryFailed) =>
             /\ UNCHANGED <<rows, progress, isGenerating, activeKeyIndexRef,
                            batch, timerQ, modelCache>>
             /\ apiKeyModalOpen']_vars

\* Retry Failed was clicked with error rows and no credential: the dialog is
\* open with nothing done in it, as only generateBatch opens it.
C11_Witness ==
    /\ apiKeys = 0
    /\ apiKeyModalOpen
    /\ validation = NoValidation
    /\ ~isTesting
    /\ Len(Failed(rows)) > 0
    /\ ~isGenerating

\* The identities of the rows in the Result Store, in store order.
RowIds(rs) == [k \in 1..Len(rs) |-> rs[k].id]

\* C12: while isGenerating is true no upload and no removal changes the Result
\* Store: across every step taken with isGenerating set, the store holds the
\* same rows in the same order (only their fields change).
C12_StoreFixedWhileGenerating ==
    [][isGenerating => RowIds(rows') = RowIds(rows)]_vars

\* A generateMetadata call that got as far as the generateContent request.
Resolved == [ok |-> TRUE, error |-> NoError]

Requested(m, listing) == batch[m].hit \/ resolveModel(listing).ok

\* C13: generateMetadata returns a result only for a body with title,
\* description and a keywords list of strings; for a body that lacks a field
\* or whose keywords array holds a non-string it fails, and the row of the
\* attempt is in error once the attempt has settled.
C13_MalformedResponseMarksError ==
    [][\A m \in Instances, listing \in ListingResponses, resp \in GenerateResponses :
          (/\ resp.transport = "ok" /\ resp.status = 200
           /\ resp.body \in {"badKeywords", "malformed"}
           /\ Requested(m, listing)
           /\ MetadataSettled(m, listing, resp))
          => /\ ~generateMetadata(Resolved, resp).ok
             /\ \A k \in StoreRows(rows', CurrentRowId(m)) :
                   rows'[k].status = "error"]_vars

\* C14: a generateContent answer with a non-2xx status other than 429 reaches
\* the caller of generateMetadata as a failure that carries the message of
\* the response and its HTTP status.
C14_ApiErrorKeepsMessageAndStatus ==
    [][\A m \in Instances, listing \in ListingResponses, resp \in GenerateResponses :
          (/\ resp.transport = "ok" /\ resp.status \notin {200, 429}
           /\ Requested(m, listing)
           /\ MetadataSettled(m, listing, resp))
          \* what the catch block of generateForRow is handed
          => LET caught == generateMetadata(Resolved, resp)
             IN /\ ~caught.ok
                /\ caught.error.message = "API request failed"
                /\ caught.error.status = resp.status]_vars

\* C15: after apiKeyStore.remove() nothing is stored and no cached model
\* resolution remains until a getOrResolveModel call made after the removal
\* has done a fresh listing: remove() leaves both entries empty, and a call
\* that was already in flight when remove() ran brings no record back.
C15_RemoveClearsKeyAndCache ==
    [][/\ removeKey => (storedKey' = 0 /\ modelCache' = -1)
       /\ \A m \in Instances, listing \in ListingResponses, resp \in GenerateResponses :
             (batch[m].removed /\ MetadataSettled(m, listing, resp))
             => modelCache' = modelCache]_vars

\* The credentials whose trimmed form is empty or shorter than the minimum.
Malformed == {cred \in Credentials : cred.trimmed < MIN_KEY_LENGTH}

\* C16: a credential whose trimmed form is empty or shorter than 20
\* characters is rejected before any network call and any write: validate
\* gives an invalid result with a reason; test ends with that result, no
\* call in flight and the resolved-model record as it was; saveKey leaves the
\* persisted credential and the apiKey state as they were.
C16_MalformedCredentialRejected ==
    /\ [](\A cred \in Malformed :
             ~validate(cred).isValid /\ validate(cred).error # "")
    /\ [][\A cred \in Malformed :
             /\ testKey(cred) =>
                   /\ validation' = validate(cred)
                   /\ ~isTesting'
                   /\ modelCache' = modelCache
             /\ \A writeOk \in BOOLEAN :
                   saveKey(cred, writeOk) =>
                       /\ storedKey' = storedKey
                       /\ apiKeys' = apiKeys
                       /\ validation' = validate(cred)]_vars

\* A too short credential was handed to saveKey or testKey while a valid one
\* is stored: the reason shows and the stored one is still in use.
C16_Witness ==
    /\ validation.error = "API key appears to be too short"
    /\ storedKey > 0
    /\ apiKeys = storedKey
    /\ ~isTesting

\* The mutations of the Result Store a step can be, with their results.
StoreMutations ==
    {[updated |-> updateRow(rows, id, updates)] :
        id \in 1..MaxFiles, updates \in RowUpdates}
    \cup {[updated |-> removeRow(rows, id)] : id \in 1..MaxFiles}
    \cup {[updated |-> Pending(rows)]}

\* C17: whatever the local storage write does, a Result Store mutation ends
\* with the in-memory rows it produced and nothing escapes to its caller (so
\* the batch that called it goes on): a first write that fails for capacity
\* is retried once without previews, and when that fails too, or the first
\* write fails otherwise, the entry stays as it was and the error is logged.
C17_WriteFailureKeepsMemory ==
    /\ [](\A mu \in StoreMutations, w \in WriteOutcomes :
             LET r == syncToStorage(mu.updated, persisted, w)
             IN /\ ~r.thrown
                /\ w.first = "ok" => r.persisted = Serializable(mu.updated)
                /\ (w.first = "quota" /\ w.retry = "ok")
                      => r.persisted = Minimal(mu.updated)
                /\ (w.first = "other" \/ (w.first = "quota" /\ w.retry = "fail"))
                      => (r.persisted = persisted /\ r.logged))
    /\ [][\A w \in WriteOutcomes :
             /\ \A id \in 1..MaxFiles, updates \in RowUpdates :
                   ResultsUpdateRow(id, updates, w)
                       => rows' = updateRow(rows, id, updates)
             /\ \A id \in 1..MaxFiles :
                   ResultsRemoveRow(id, w) => rows' = removeRow(rows, id)
             /\ ResultsSetRows(w) => rows' = Pending(rows)
             /\ \A files \in Drops :
                   ResultsAddRows(files, w) => Len(rows') = Len(rows) + Len(files)]_vars

\* Both writes of a mutation failed: the rows in memory have a row in a state
\* the entry does not have.
C17_Witness ==
    /\ persisted.rows # Reloaded(rows)
    /\ \E k \in 1..Len(rows) : rows[k].status \in {"success", "error"}
    /\ Len(persisted.rows) = Len(rows)

\* Two strings equal up to letter case.
SameUpToCase(x, y) == toLowerCase(x) = toLowerCase(y)

\* The first position of list whose keyword normalises to value.
FirstSeen(list, value) ==
    CHOOSE k \in 1..Len(list) :
        /\ normalizeKeyword(list[k]).value = value
        /\ \A j \in 1..(k - 1) : normalizeKeyword(list[j]).value # value

\* C18: normalizeKeywords applied to its own output changes nothing; its
\* output has no empty entry and no two entries equal up to letter case, and
\* holds each normalised keyword of the input once, in the order in which
\* they are first seen in the input.
C18_NormalizeIdempotent ==
    /\ [](keywords.applied >= 1 =>
            LET out == keywords.list
                raw == keywords.raw
            IN /\ normalizeKeywords(out) = out
               /\ \A k \in 1..Len(out) : out[k] # <<>>
               /\ \A j, k \in 1..Len(out) : SameUpToCase(out[j], out[k]) => j = k
               /\ {out[k] : k \in 1..Len(out)} =
                     {normalizeKeyword(raw[k]).value : k \in 1..Len(raw)} \ {<<>>}
               /\ \A j, k \in 1..Len(out) :
                     j < k => FirstSeen(raw, out[j]) < FirstSeen(raw, out[k]))
    /\ [][keywords.applied = 1 => keywords'.list = keywords.list]_vars

\* A list with a duplicate up to case and an entry that trims to nothing went
\* through normalizeKeywords twice and came out shorter, two keywords left.
C18_Witness ==
    /\ keywords.applied = 2
    /\ Len(keywords.raw) = 3
    /\ Len(keywords.list) = 2
    /\ \E j, k \in 1..Len(keywords.raw) :
          /\ j # k
          /\ keywords.raw[j] # keywords.raw[k]
          /\ SameUpToCase(trim(keywords.raw[j]), trim(keywords.raw[k]))

RECURSIVE ReadQuoted(_, _, _)
\* A reader of RFC 4180 text (a line feed ends a record).
\* ReadQuoted: the rest of a quoted field from position i on, up to and
\* including its closing quote.
ReadQuoted(text, i, field) ==
    IF i > Len(text) THEN [ok |-> FALSE, value |-> field, next |-> i]
    ELSE IF text[i] # Quote THEN ReadQuoted(text, i + 1, Append(field, text[i]))
    ELSE IF i < Len(text) /\ text[i + 1] = Quote
         THEN ReadQuoted(text, i + 2, Append(field, Quote))
         ELSE [ok |-> TRUE, value |-> field, next |-> i + 1]

RECURSIVE ReadPlain(_, _, _)
\* ReadPlain: an unquoted field from position i on, up to its separator.
ReadPlain(text, i, field) ==
    IF i > Len(text) \/ text[i] \in {Comma, Newline}
    THEN [ok |-> TRUE, value |-> field, next |-> i]
    ELSE IF text[i] = Quote THEN [ok |-> FALSE, value |-> field, next |-> i]
    ELSE ReadPlain(text, i + 1, Append(field, text[i]))

\* One field from position i on; next is the position of its separator.
ReadField(text, i) ==
    IF i <= Len(text) /\ text[i] = Quote
    THEN LET q == ReadQuoted(text, i + 1, <<>>)
         IN [q EXCEPT !.ok = /\ q.ok
                             /\ (q.next > Len(text)
                                 \/ text[q.next] \in {Comma, Newline})]
    ELSE ReadPlain(text, i, <<>>)

RECURSIVE ReadFields(_, _, _, _)
ReadFields(text, i, record, records) ==
    LET f == ReadField(text, i)
    IN IF ~f.ok THEN [ok |-> FALSE, records |-> <<>>]
       ELSE IF f.next > Len(text)
            THEN [ok |-> TRUE,
                  records |-> Append(records, Append(record, f.value))]
       ELSE IF text[f.next] = Comma
            THEN ReadFields(text, f.next + 1, Append(record, f.value), records)
            ELSE ReadFields(text, f.next + 1, <<>>,
                            Append(records, Append(record, f.value)))

ParseCsv(text) == ReadFields(text, 1, <<>>, <<>>)

\* The records a correct export of the given rows reads back as.
Records(list) ==
    <<CSV_COLUMNS>> \o [k \in 1..Len(list) |-> imageRowToCsvRow(list[k])]

NonEmpty(row) ==
    /\ row.status = "success"
    /\ row.title # <<>> /\ row.description # <<>> /\ row.keywords # <<>>

NonBlank(row) ==
    /\ row.status = "success"
    /\ trim(row.title) # <<>> /\ trim(row.description) # <<>>
    /\ trim(row.keywords) # <<>>

C20_ExportRoundTrips ==
    /\ (csv.path = "bulk" /\ ~csv.thrown) =>
          /\ ParseCsv(csv.text).ok
          /\ ParseCsv(csv.text).records = Records(SelectSeq(csv.rows, validRow))
    /\ csv.path = "single" =>
          /\ ParseCsv(csv.text).ok
          /\ ParseCsv(csv.text).records = Records(<<csv.rows[csv.k]>>)

\* C21: a row carries an error message only while its status is error: a row
\* in pending, generating or success has none, an error row that was
\* resubmitted and is in generating again included.
C21_ErrorOnlyWithErrorStatus ==
    \A k \in 1..Len(rows) :
        rows[k].status # "error" => rows[k].error = NoRowError

\* C22: the pacing delay generateBatch waits after a row that failed is
\* strictly longer than the one it waits after a row that succeeded: of a
\* row that is being generated, the timer registered if it is rejected has
\* more milliseconds than the timer registered if it is resolved, and the
\* timer a settling step leaves last in the queue is that timer.
C22_FailureDelayLonger ==
    /\ [](\A m \in Instances :
             batch[m].pc \in {"read", "call"} =>
                 Last(RowRejected(World, m).timerQ).ms
                     > Last(RowResolved(World, m).timerQ).ms)
    /\ [][\A m \in Instances :
             (ProgramStep /\ batch[m].pc \in {"read", "call"}
                /\ batch'[m].pc = "pace")
             => Last(timerQ') =
                   IF batch'[m].fail > batch[m].fail
                   THEN Last(RowRejected(World, m).timerQ)
                   ELSE Last(RowResolved(World, m).timerQ)]_vars

\* C23: the resolved-model record of a credential, once written, stays until
\* the credential is removed: a step that changes or drops an existing record
\* is removeKey; resolving or testing another credential leaves it alone.
C23_CacheKeptUntilRemoval ==
    [][(modelCache # -1 /\ modelCache' # modelCache) => removeKey]_vars

\* A getOrResolveModel call that went through resolveModel has ended.
Resolving == resolver.pc \in {"returned", "thrown"} /\ resolver.queried # <<>>

Failure(r) == r.status # 200

NoModelError == ErrorOf("No suitable model found for this API key")

\* C24 as stated: resolveModel queries the v1beta listing first and the v1
\* listing only when the v1beta query failed; a failure of the v1 query
\* reaches the caller; when no listed model supports generateContent the call
\* fails with the no-model error.
C24_FallbackOnlyOnFailure ==
    Resolving =>
        LET l == resolver.listing
        IN /\ Head(resolver.queried) = "v1beta"
           /\ resolver.queried = <<"v1beta", "v1">> <=> Failure(l.v1beta)
           /\ resolver.queried \in {<<"v1beta">>, <<"v1beta", "v1">>}
           /\ (Len(resolver.queried) = 2 /\ Failure(l.v1))
                 => (resolver.pc = "thrown"
                       /\ resolver.error = discoverModels(l.v1).error)
           /\ (\A j \in 1..Len(resolver.queried) :
                  ~Failure(l[resolver.queried[j]]) /\ ~l[resolver.queried[j]].usable)
                 => (resolver.pc = "thrown" /\ resolver.error = NoModelError)

\* C24, amended: resolveModel queries the v1beta listing first and the v1
\* listing, once, exactly when the v1beta query failed or listed no model
\* that supports generateContent; a failure of the v1 query reaches the
\* caller; when the v1 query succeeds and lists no such model either the call
\* fails with the no-model error; a model is returned in no other case than
\* that the last listing queried holds one.
C24_FallbackOnFailureOrNoModel ==
    Resolving =>
        LET l == resolver.listing
        IN /\ Head(resolver.queried) = "v1beta"
           /\ resolver.queried = <<"v1beta", "v1">>
                 <=> (Failure(l.v1beta) \/ ~l.v1beta.usable)
           /\ resolver.queried \in {<<"v1beta">>, <<"v1beta", "v1">>}
           /\ (Len(resolver.queried) = 2 /\ Failure(l.v1))
                 => (resolver.pc = "thrown"
                       /\ resolver.error = discoverModels(l.v1).error)
           /\ (Len(resolver.queried) = 2 /\ ~Failure(l.v1) /\ ~l.v1.usable)
                 => (resolver.pc = "thrown" /\ resolver.error = NoModelError)
           /\ resolver.pc = "returned"
                 => (~Failure(l[Last(resolver.queried)])
                       /\ l[Last(resolver.queried)].usable)

\* The v1beta listing answered without a usable model, the v1 listing was
\* queried and answered without one too: the call failed with the no-model
\* error.
C24_Witness ==
    /\ resolver.pc = "thrown"
    /\ resolver.queried = <<"v1beta", "v1">>
    /\ ~Failure(resolver.listing.v1beta)
    /\ ~Failure(resolver.listing.v1)
    /\ resolver.error = NoModelError

\* C30: the apiVersion of the result getOrResolveModel returns, fresh from
\* resolveModel or read from the gemini_resolved_model entry, with which
\* generateMetadata builds the generateContent URL, is the variant whose
\* listing the model was taken from: v1 when the v1beta listing failed and the
\* model was found through the v1 listing.
C30_ApiVersionIsListingVariant ==
    /\ resolver.pc = "returned"
          => resolver.result.apiVersion = resolver.result.modelFrom
    /\ resolver.cache # NoRecord
          => resolver.cache.apiVersion = resolver.cache.modelFrom

\* C25: no two rows of the Result Store have the same filename, whether the
\* files came in one drop or in drops that were handled before the rows of
\* an earlier drop were added.
C25_FilenamesUnique ==
    \A j, k \in 1..Len(rows) : rows[j].filename = rows[k].filename => j = k

\* The fields of a row that the entry has to agree on with the memory.
Stored(row) == [f \in DOMAIN row \ {"file", "preview"} |-> row[f]]

\* The entry agrees with the rows in memory.
InSync(stored, rs) ==
    /\ Len(stored.rows) = Len(rs)
    /\ \A k \in 1..Len(rs) :
          /\ Stored(stored.rows[k]) = Stored(rs[k])
          /\ stored.rows[k].preview => stored.rows[k].status = "success"
          /\ (rs[k].status = "success" /\ rs[k].preview) => stored.rows[k].preview

\* C26: after a Result Store mutation whose first storage write succeeded,
\* the entry holds the rows of the memory in the same order with the same
\* id, status, metadata and error, and a row of the entry has a preview only
\* if its status is success (a success row keeps the preview it has).
C26_PersistedMatchesMemory ==
    /\ [](\A mu \in StoreMutations, w \in WriteOutcomes :
             w.first = "ok" =>
                InSync(syncToStorage(mu.updated, persisted, w).persisted, mu.updated))
    /\ [][\A w \in WriteOutcomes :
             (/\ w.first = "ok"
              /\ \/ \E id \in 1..MaxFiles, updates \in RowUpdates :
                       ResultsUpdateRow(id, updates, w)
                 \/ \E id \in 1..MaxFiles : ResultsRemoveRow(id, w)
                 \/ ResultsSetRows(w)
                 \/ \E files \in Drops : ResultsAddRows(files, w))
             => InSync(persisted', rows')]_vars

\* The entry holds a success row with its preview next to a row of another
\* status without one, as the memory does with previews on both.
C26_Witness ==
    /\ InSync(persisted, rows)
    /\ \E j, k \in 1..Len(rows) :
          /\ rows[j].status = "success" /\ persisted.rows[j].preview
          /\ rows[k].status # "success" /\ rows[k].preview
          /\ ~persisted.rows[k].preview

\* C27: with exactly one credential the rotating orchestrator and the
\* single-credential orchestrator, given the same batch and the same remote
\* outcomes, go through the batch together, and once a row has settled on a
\* remote outcome (success, quota error, other failure) it has the same
\* status in both and the completed and failed counts of both are the same.
C27_SingleKeyRotationEqualsSingle ==
    LET R == pair.rot
        S == pair.single
    IN /\ R.batch[Page].pc = S.batch[Page].pc
       /\ (R.batch[Page].pc = "pace" /\ R.batch[Page].answers # <<>>)
             => /\ \A k \in StoreRows(R.rows, R.batch[Page].queue[R.batch[Page].idx].id) :
                      R.rows[k].status = S.rows[k].status
                /\ R.progress.completed = S.progress.completed
                /\ R.progress.failed = S.progress.failed
                /\ R.batch[Page].succ = S.batch[Page].succ
                /\ R.batch[Page].fail = S.batch[Page].fail

\* C28: every row a batch marked generating has settled when the batch ends:
\* once generateBatch is through its list no row of the list is in status
\* generating, whatever made its attempt fail, so Retry Failed finds each
\* failed row among the error rows.
C28_NoRowLeftGenerating ==
    batch[Page].pc = "done"
    => \A j \in 1..Len(batch[Page].queue) :
          \A k \in StoreRows(rows, batch[Page].queue[j].id) :
              rows[k].status # "generating"

\* C29: inProgress is never negative; while the batch of the page runs,
\* completed + failed + inProgress = total; and the delayed reset registered
\* at the end of a batch does not change the counters of a batch that was
\* started after that one.
C29_ProgressConsistent ==
    /\ [](/\ progress.inProgress >= 0
          /\ Running(batch[Page]) =>
                progress.completed + progress.failed + progress.inProgress
                    = progress.total)
    /\ [][(Running(batch[Page]) /\ ProgressReset) => progress' = progress]_vars

====
